---- MODULE Spec2Model ----
(***************************************************************************)
(* Model of GIFMaker.create_gif_from_images (src/gif_maker.py) and of its  *)
(* two callers, main() and GIFMakerGUI.create_gif_thread().                *)
(*                                                                         *)
(* File names are sequences of ASCII codes, so that str.lower, str.isdigit *)
(* and Python's string ordering are computed, not assumed.  Python's None  *)
(* is the empty tuple <<>>; an integer k that may be None is <<k>>.        *)
(***************************************************************************)
EXTENDS Integers, Sequences, FiniteSets, TLC

VARIABLES
    folder_exists,    \* os.listdir(image_folder) can list the folder
    folder,           \* the folder's entries, in os.listdir order
    caller,           \* "none", "cli", "gui" or "api"
    args_max,         \* args.max of the command line (<<>> when omitted)
    max_frames_arg,   \* the max_frames argument of create_gif_from_images
    sort_numerically, \* the sort_numerically argument
    pc,               \* position inside create_gif_from_images
    max_frames,       \* local max_frames once lines 43-55 have run
    listed,           \* os.listdir has been called
    image_files,      \* local image_files
    images,           \* local images (the frame buffer)
    base_size,        \* local base_size
    i,                \* number of loop iterations finished (enumerate index)
    total_processed,  \* local total_processed
    opened,           \* number of Image.open calls made
    skipped,          \* files reported by the per-file except clause
    checkpoints,      \* gc.collect() + psutil samples: <<i + 1, percent>>
    stopped,          \* the loop was left through break
    encoded,          \* frames handed to images[0].save
    output,           \* "absent", "written" or "partial"
    result,           \* "none", "True" or "False"
    error,            \* which exception ended the run
    prev              \* outcome of the previous run on the same folder

vars == <<folder_exists, folder, caller, args_max, max_frames_arg,
          sort_numerically, pc, max_frames, listed, image_files, images,
          base_size, i, total_processed, opened, skipped, checkpoints,
          stopped, encoded, output, result, error, prev>>

None == <<>>

(***************************************************************************)
(* Bounds of the model.                                                    *)
(***************************************************************************)
\* longest listing drawn from the pool of hand-written files
MaxFiles == 3
\* the generated folders hold up to MaxBatches * batch_size + 1 files
MaxBatches == 2

(***************************************************************************)
(* Program constants.                                                      *)
(***************************************************************************)
batch_size == 100
max_dimension == 1920
hard_upper_cap == 10000
memory_threshold == 80
\* memory is counted in KiB (psutil reports whole pages), so that the
\* readings fit TLC's integers: 2 * 1024 * 1024 bytes is 2 * 1024 KiB
estimated_memory_per_frame == 2 * 1024

(***************************************************************************)
(* Strings.                                                                *)
(***************************************************************************)
IsDigit(c) == c \in 48..57
Lower(c) == IF c \in 65..90 THEN c + 32 ELSE c
LowerStr(s) == [k \in 1..Len(s) |-> Lower(s[k])]
EndsWith(s, suffix) ==
    /\ Len(suffix) <= Len(s)
    /\ SubSeq(s, Len(s) - Len(suffix) + 1, Len(s)) = suffix

\* s < t in Python's ordering of str (by code point, a proper prefix first)
RECURSIVE StrLess(_, _)
StrLess(s, t) ==
    IF t = <<>> THEN FALSE
    ELSE IF s = <<>> THEN TRUE
    ELSE IF Head(s) # Head(t) THEN Head(s) < Head(t)
    ELSE StrLess(Tail(s), Tail(t))

\* int(ds) of a non-empty string of decimal digits
RECURSIVE StrToInt(_)
StrToInt(ds) ==
    IF ds = <<>> THEN 0
    ELSE 10 * StrToInt(SubSeq(ds, 1, Len(ds) - 1)) + (ds[Len(ds)] - 48)

\* str(n) for n >= 0
RECURSIVE IntToStr(_)
IntToStr(n) ==
    IF n < 10 THEN <<48 + n>> ELSE Append(IntToStr(n \div 10), 48 + (n % 10))

supported_formats ==
    { <<46, 106, 112, 103>>,        \* .jpg
      <<46, 106, 112, 101, 103>>,   \* .jpeg
      <<46, 112, 110, 103>>,        \* .png
      <<46, 98, 109, 112>>,         \* .bmp
      <<46, 116, 105, 102, 102>>,   \* .tiff
      <<46, 119, 101, 98, 112>> }   \* .webp

\* any(file.lower().endswith(fmt) for fmt in self.supported_formats)
IsSupported(name) == \E fmt \in supported_formats : EndsWith(LowerStr(name), fmt)

\* int(''.join(filter(str.isdigit, os.path.basename(x))) or 0)
SortKey(name) ==
    LET ds == SelectSeq(name, IsDigit)
    IN  IF ds = <<>> THEN 0 ELSE StrToInt(ds)

(***************************************************************************)
(* Files.  A file is its name, the mode and size its header declares, and  *)
(* how Pillow fails on it: "open" (Image.open raises), "load" (the header  *)
(* is readable but the pixel data is not, so the first operation that      *)
(* loads the pixels raises), or "none".                                    *)
(***************************************************************************)
File(name, mode, size, fail) ==
    [name |-> name, mode |-> mode, size |-> size, fail |-> fail]

FilePool ==
    { File(<<50, 46, 112, 110, 103>>, "RGB", <<3840, 2160>>, "none"),    \* 2.png
      File(<<49, 48, 46, 80, 78, 71>>, "RGB", <<100, 80>>, "none"),      \* 10.PNG
      File(<<48, 50, 46, 119, 101, 98, 112>>, "L", <<1000, 2500>>, "none"), \* 02.webp
      File(<<97, 49, 46, 106, 112, 103>>, "L", <<64, 64>>, "load"),      \* a1.jpg
      File(<<98, 46, 98, 109, 112>>, "RGB", <<50, 50>>, "load"),         \* b.bmp
      File(<<66, 46, 98, 109, 112>>, "RGB", <<30, 40>>, "open"),         \* B.bmp
      File(<<110, 111, 116, 101, 115, 46, 116, 120, 116>>, "RGB", <<1, 1>>, "open") } \* notes.txt

\* listings of at most MaxFiles distinct pool files, in any os.listdir order
SmallFolders ==
    UNION { { s \in [1..n -> FilePool] : \A a, b \in 1..n : a # b => s[a] # s[b] }
            : n \in 0..MaxFiles }

\* f<j>.png
BigFile(j, bad) ==
    File(<<102>> \o IntToStr(j) \o <<46, 112, 110, 103>>, "RGB",
         IF j % 2 = 0 THEN <<64, 48>> ELSE <<32, 32>>,
         IF j \in bad THEN "open" ELSE "none")

\* n generated files, listed from the highest number down
BigFolder(n, bad) == [p \in 1..n |-> BigFile(n + 1 - p, bad)]

BigFolders ==
    { BigFolder(b * batch_size + 1, bad) :
        b \in 1..MaxBatches, bad \in { {}, {batch_size} } }

(***************************************************************************)
(* Memory readings of psutil.virtual_memory(): available memory in KiB,    *)
(* utilisation in percent.                                                 *)
(***************************************************************************)
AvailableMemories ==
    { 2 * estimated_memory_per_frame - 1,
      2 * estimated_memory_per_frame,
      (hard_upper_cap + 1) * (2 * estimated_memory_per_frame) }

MemoryPercents == { 50, memory_threshold, memory_threshold + 1 }

\* explicit caps a direct caller passes
ExplicitCaps == { -1, 0, 1, 2, batch_size + batch_size \div 2 }

Min(a, b) == IF a < b THEN a ELSE b

\* lines 49-52: min(int(available_memory * 0.5 / estimated_memory_per_frame), 10000)
CalculatedMaxFrames(available_memory) ==
    Min((available_memory \div 2) \div estimated_memory_per_frame, hard_upper_cap)

(***************************************************************************)
(* list.sort: a stable sort.  The element at index j goes to the position  *)
(* given by the number of elements that sort before it, where of two       *)
(* elements that compare equal the one standing earlier in the list sorts  *)
(* first.  The keys are computed once per element, as list.sort(key=...)   *)
(* does.  Every path is os.path.join(image_folder, file) with the same     *)
(* image_folder, so paths compare as the file names do.                    *)
(***************************************************************************)
\* a variant that sorts descending, as reverse=True would
NumericBefore_Descending(key_a, key_b) == key_a > key_b

\* line 68: a < b under key=lambda x: int(''.join(filter(...)) or 0)
NumericBefore(key_a, key_b) == key_a < key_b

\* line 70: a < b under image_files.sort()
PathBefore(a, b) == StrLess(a.name, b.name)

StableSort(files, numeric) ==
    LET n == Len(files)
        keys == SubSeq([j \in 1..n |-> SortKey(files[j].name)], 1, n)
        Before(a, b) == IF numeric THEN NumericBefore(keys[a], keys[b])
                                   ELSE PathBefore(files[a], files[b])
        rank == SubSeq([j \in 1..n |->
                    1 + Cardinality({ k \in 1..n :
                            \/ Before(k, j)
                            \/ (k < j /\ ~Before(j, k)) })], 1, n)
    IN  [p \in 1..n |-> files[CHOOSE j \in 1..n : rank[j] = p]]

\* s[:k] of Python, k possibly negative
Slice(s, k) ==
    IF k >= 0 THEN SubSeq(s, 1, Min(k, Len(s)))
    ELSE SubSeq(s, 1, IF Len(s) + k > 0 THEN Len(s) + k ELSE 0)

\* a variant that keeps the last cap files instead of the first
Truncated_KeepLast(files, cap) ==
    IF Len(files) > cap
    THEN SubSeq(files, Len(files) - cap + 1, Len(files))
    ELSE files

\* lines 72-75
Truncated(files, cap) == IF Len(files) > cap THEN Slice(files, cap) ELSE files

(***************************************************************************)
(* One pass of the loop body, lines 88-109.                                *)
(***************************************************************************)
\* lines 99-102, with ratio = min(max_dimension / w, max_dimension / h)
Downscale(size) ==
    LET w == size[1]
        h == size[2]
    IN  IF w > max_dimension \/ h > max_dimension
        THEN IF w >= h THEN <<max_dimension, (h * max_dimension) \div w>>
                       ELSE <<(w * max_dimension) \div h, max_dimension>>
        ELSE size

\* lines 96-105: the size of img once the if / else has run
FrameSize(file, base) == IF base = None THEN file.size ELSE base

\* lines 96-102: base_size once the if / else has run
NextBaseSize(file, base) == IF base = None THEN Downscale(file.size) ELSE base

Raised(base) == [ok |-> FALSE, base_size |-> base, frame |-> None]

ProcessImage(file, base) ==
    IF file.fail = "open" THEN Raised(base)                      \* line 89
    ELSE IF file.mode # "RGB" /\ file.fail = "load"
         THEN Raised(base)                                       \* line 93
    ELSE IF base # None /\ file.fail = "load"
         THEN Raised(base)                                       \* line 105
    ELSE IF file.fail = "load"
         THEN Raised(NextBaseSize(file, base))                   \* line 108
    ELSE [ok |-> TRUE,
          base_size |-> NextBaseSize(file, base),
          frame |-> [file |-> file.name, size |-> FrameSize(file, base)]]

\* line 113
AtCheckpoint(n) == n % batch_size = 0

\* a variant with >= in place of >
MemoryTooHigh_Inclusive(memory_percent) == memory_percent >= memory_threshold

\* line 119
MemoryTooHigh(memory_percent) == memory_percent > memory_threshold

\* lines 119-122: break
Break(memory_percent, frames) == MemoryTooHigh(memory_percent) /\ Len(frames) > 0

\* a variant in which a file that raises ends the loop
NextPc_BreakOnError(ok, broke, last) ==
    IF ~ok \/ broke \/ last THEN "save" ELSE "loop"

\* where the loop stands after an iteration: left through break (line 122)
\* or exhausted (line 87), else on to the next file (also after line 126)
NextPc(ok, broke, last) == IF broke \/ last THEN "save" ELSE "loop"

\* line 128: if not images
HasFrames(frames) == frames # <<>>

\* lines 132-135: images[0] and append_images=images[1:]
EncoderInput(frames) == <<Head(frames)>> \o Tail(frames)

(***************************************************************************)
(* Initial state: a folder, and nobody has called the pipeline yet.        *)
(***************************************************************************)
Folders == SmallFolders \cup BigFolders

InitWith(folders) ==
    /\ folder_exists \in BOOLEAN
    /\ folder \in folders
    /\ (~folder_exists => folder = <<>>)
    /\ caller = "none"
    /\ args_max = None
    /\ max_frames_arg = None
    /\ sort_numerically = TRUE
    /\ pc = "idle"
    /\ max_frames = None
    /\ listed = FALSE
    /\ image_files = <<>>
    /\ images = <<>>
    /\ base_size = None
    /\ i = 0
    /\ total_processed = 0
    /\ opened = 0
    /\ skipped = <<>>
    /\ checkpoints = <<>>
    /\ stopped = FALSE
    /\ encoded = None
    /\ output = "absent"
    /\ result = "none"
    /\ error = "none"
    /\ prev = None

Init == InitWith(Folders)

local_vars == <<max_frames, listed, image_files, images, base_size, i,
                total_processed, opened, skipped, checkpoints, stopped,
                encoded, output, result, error>>

env_vars == <<folder_exists, folder, prev>>

call_vars == <<caller, args_max, max_frames_arg, sort_numerically>>

(***************************************************************************)
(* Callers.                                                                *)
(***************************************************************************)
\* the max_frames keyword main() passes on: none (lines 355-362)
CliMaxFrames(m) == None

\* main(), lines 342-362, with -m/--max m (<<>> when omitted) and --no-sort
main(m, no_sort) ==
    /\ pc = "idle"
    /\ caller' = "cli"
    /\ args_max' = m
    /\ max_frames_arg' = CliMaxFrames(m)
    /\ sort_numerically' = ~no_sort
    /\ pc' = "budget"
    /\ UNCHANGED <<local_vars, env_vars>>

\* GIFMakerGUI.create_gif_thread, lines 308-323
create_gif_thread(sort_var) ==
    /\ pc = "idle"
    /\ caller' = "gui"
    /\ args_max' = None
    /\ max_frames_arg' = None
    /\ sort_numerically' = sort_var
    /\ pc' = "budget"
    /\ UNCHANGED <<local_vars, env_vars>>

\* a direct call of create_gif_from_images(..., sort_numerically, max_frames)
create_gif_from_images(cap, sort) ==
    /\ pc = "idle"
    /\ caller' = "api"
    /\ args_max' = None
    /\ max_frames_arg' = cap
    /\ sort_numerically' = sort
    /\ pc' = "budget"
    /\ UNCHANGED <<local_vars, env_vars>>

(***************************************************************************)
(* create_gif_from_images, step by step.                                   *)
(***************************************************************************)
\* a variant without the check of line 63
NoneFound_Never(found) == FALSE

\* line 63: if not image_files
NoneFound(found) == found = <<>>

\* the outer except clause, lines 145-147
Fail(why) ==
    /\ result' = "False"
    /\ error' = why
    /\ pc' = "done"

\* lines 43-55
EffectiveMaxFrames(arg, available_memory) ==
    IF arg = None THEN <<CalculatedMaxFrames(available_memory)>> ELSE arg

ComputeBudget ==
    /\ pc = "budget"
    /\ \E available_memory \in AvailableMemories :
          max_frames' = EffectiveMaxFrames(max_frames_arg, available_memory)
    /\ pc' = "list"
    /\ UNCHANGED <<listed, image_files, images, base_size, i, total_processed,
                   opened, skipped, checkpoints, stopped, encoded, output,
                   result, error, env_vars, call_vars>>

\* lines 57-64
ListFolder ==
    /\ pc = "list"
    /\ listed' = TRUE
    /\ IF ~folder_exists
       THEN /\ Fail("FolderNotFound")
            /\ UNCHANGED image_files
       ELSE LET found == SelectSeq(folder, LAMBDA f : IsSupported(f.name))
            IN  IF NoneFound(found)
                THEN /\ Fail("NoSupportedFiles")
                     /\ UNCHANGED image_files
                ELSE /\ image_files' = found
                     /\ pc' = "sort"
                     /\ UNCHANGED <<result, error>>
    /\ UNCHANGED <<max_frames, images, base_size, i, total_processed, opened,
                   skipped, checkpoints, stopped, encoded, output, env_vars,
                   call_vars>>

\* lines 66-70
SortFiles ==
    /\ pc = "sort"
    /\ image_files' = StableSort(image_files, sort_numerically)
    /\ pc' = "truncate"
    /\ UNCHANGED <<max_frames, listed, images, base_size, i, total_processed,
                   opened, skipped, checkpoints, stopped, encoded, output,
                   result, error, env_vars, call_vars>>

\* lines 72-85
Truncate ==
    /\ pc = "truncate"
    /\ image_files' = Truncated(image_files, max_frames[1])
    /\ images' = <<>>
    /\ base_size' = None
    /\ total_processed' = 0
    /\ i' = 0
    /\ pc' = IF image_files' = <<>> THEN "save" ELSE "loop"
    /\ UNCHANGED <<max_frames, listed, opened, skipped, checkpoints, stopped,
                   encoded, output, result, error, env_vars, call_vars>>

\* one iteration of the for loop, lines 87-126
ProcessFile ==
    /\ pc = "loop"
    /\ i < Len(image_files)
    /\ LET img_path == image_files[i + 1]
           r == ProcessImage(img_path, base_size)
       IN  /\ opened' = opened + 1
           /\ base_size' = r.base_size
           /\ i' = i + 1
           /\ IF r.ok
              THEN /\ images' = Append(images, r.frame)
                   /\ total_processed' = total_processed + 1
                   /\ UNCHANGED skipped
                   /\ IF AtCheckpoint(i + 1)
                      THEN \E memory_percent \in MemoryPercents :
                              /\ checkpoints' =
                                    Append(checkpoints, <<i + 1, memory_percent>>)
                              /\ stopped' = Break(memory_percent, images')
                      ELSE UNCHANGED <<checkpoints, stopped>>
              ELSE /\ skipped' = Append(skipped, img_path.name)
                   /\ UNCHANGED <<images, total_processed, checkpoints, stopped>>
    /\ pc' = NextPc(ProcessImage(image_files[i + 1], base_size).ok, stopped',
                    i' = Len(image_files))
    /\ UNCHANGED <<max_frames, listed, image_files, encoded, output, result,
                   error, env_vars, call_vars>>

\* lines 128-143; Image.save may raise, and may leave a partial file behind
Save ==
    /\ pc = "save"
    /\ IF ~HasFrames(images)
       THEN /\ Fail("NoFramesProcessed")
            /\ UNCHANGED <<encoded, output>>
       ELSE /\ encoded' = EncoderInput(images)
            /\ \/ /\ output' = "written"
                  /\ result' = "True"
                  /\ pc' = "done"
                  /\ UNCHANGED error
               \/ /\ output' \in {output, "partial"}
                  /\ Fail("EncodeError")
    /\ UNCHANGED <<max_frames, listed, image_files, images, base_size, i,
                   total_processed, opened, skipped, checkpoints, stopped,
                   env_vars, call_vars>>

Call ==
    \/ \E m \in {None, <<1>>}, no_sort \in BOOLEAN : main(m, no_sort)
    \/ \E sort_var \in BOOLEAN : create_gif_thread(sort_var)
    \/ \E cap \in {None} \cup { <<k>> : k \in ExplicitCaps }, sort \in BOOLEAN :
          create_gif_from_images(cap, sort)

Run == ComputeBudget \/ ListFolder \/ SortFiles \/ Truncate \/ ProcessFile \/ Save

Next == Call \/ Run

Spec == Init /\ [][Next]_vars

(***************************************************************************)
(* Running the pipeline a second time: the same caller makes the same call *)
(* on the unchanged folder once the first run has returned.  prev keeps    *)
(* what the first run returned and the memory readings it took.            *)
(***************************************************************************)
Rerun ==
    /\ pc = "done"
    /\ prev = None
    /\ prev' = <<[result |-> result, encoded |-> encoded,
                  max_frames |-> max_frames, checkpoints |-> checkpoints]>>
    /\ pc' = "budget"
    /\ max_frames' = None
    /\ listed' = FALSE
    /\ image_files' = <<>>
    /\ images' = <<>>
    /\ base_size' = None
    /\ i' = 0
    /\ total_processed' = 0
    /\ opened' = 0
    /\ skipped' = <<>>
    /\ checkpoints' = <<>>
    /\ stopped' = FALSE
    /\ encoded' = None
    /\ result' = "none"
    /\ error' = "none"
    /\ UNCHANGED <<output, folder_exists, folder, call_vars>>

\* longest hand-written listing of the folders that are run twice
MaxRerunFiles == 2

RerunFolders ==
    { f \in SmallFolders : Len(f) <= MaxRerunFiles }
        \cup { BigFolder(batch_size + 1, {}) }

InitRerun == InitWith(RerunFolders)

NextRerun == Call \/ Run \/ Rerun

SpecRerun == InitRerun /\ [][NextRerun]_vars

(***************************************************************************)
(* Vocabulary of the properties.                                           *)
(***************************************************************************)
Done == pc = "done"

Names(files) == [k \in 1..Len(files) |-> files[k].name]
FrameFiles(frames) == [k \in 1..Len(frames) |-> frames[k].file]

Decodable(f) == f.fail = "none"
DecodableFiles(files) == SelectSeq(files, Decodable)
UndecodableFiles(files) == SelectSeq(files, LAMBDA f : ~Decodable(f))

\* the folder's files that pass the format filter, in listing order
Supported == SelectSeq(folder, LAMBDA f : IsSupported(f.name))

\* the folder's entry of that name, and where os.listdir reported it
ListingIndex(name) == CHOOSE p \in 1..Len(folder) : folder[p].name = name
FileNamed(name) == folder[ListingIndex(name)]

\* the loop of lines 87-126 has been entered or passed
LoopEntered ==
    \/ pc \in {"loop", "save"}
    \/ Done /\ error \in {"none", "EncodeError", "NoFramesProcessed"}

\* every supported file of the folder can be decoded
AllDecodable == \A k \in 1..Len(Supported) : Decodable(Supported[k])

\* the first k files of the sorted list of supported files
FirstOfSorted(k) ==
    LET sorted == StableSort(Supported, sort_numerically)
    IN  SubSeq(sorted, 1, Min(k, Len(sorted)))

\* file a stands before file b in the order of the Frame Orderer
InOrder(a, b) ==
    IF sort_numerically
    THEN \/ SortKey(a) < SortKey(b)
         \/ SortKey(a) = SortKey(b) /\ ListingIndex(a) < ListingIndex(b)
    ELSE StrLess(a, b)

\* the pipeline has run twice and both runs returned True
BothRunsSucceeded == Done /\ prev # None /\ prev[1].result = "True" /\ result = "True"

IsPrefix(s, t) == Len(s) <= Len(t) /\ SubSeq(t, 1, Len(s)) = s

\* per checkpoint of a run: was utilisation above 80%
Above80(log) == [c \in 1..Len(log) |-> log[c][2] > 80]

(***************************************************************************)
(* C1.  As written: whenever at least one listed file is processed         *)
(* successfully and no memory-pressure stop happens, the run returns       *)
(* success with exactly one frame per successfully processed file.         *)
(***************************************************************************)
C1_AsWritten ==
    (Done /\ LoopEntered /\ ~stopped /\ DecodableFiles(image_files) # <<>>)
        => /\ result = "True"
           /\ FrameFiles(images) = Names(DecodableFiles(image_files))

(***************************************************************************)
(* C1, amended.  A failure on a single file never fails the run: every     *)
(* file iterated is either logged and skipped or yields exactly one frame, *)
(* the loop goes on to the end of the list unless memory pressure stops    *)
(* it, and a run that produced at least one frame returns success unless   *)
(* the final save itself fails (EncodeError).                              *)
(***************************************************************************)
C1_PerFileFailureSkipped ==
    LoopEntered =>
        LET iterated == SubSeq(image_files, 1, i)
        IN  /\ FrameFiles(images) = Names(DecodableFiles(iterated))
            /\ skipped = Names(UndecodableFiles(iterated))
            /\ (pc # "loop" /\ ~stopped) => i = Len(image_files)
            /\ (Done /\ images # <<>>) =>
                    /\ error \in {"none", "EncodeError"}
                    /\ (error = "none" <=> result = "True")
            /\ (Done /\ images = <<>>) => result = "False"

\* C1: two files are skipped, the third yields the only frame, and the run
\* returns True
C1_Witness ==
    /\ Done
    /\ result = "True"
    /\ ~stopped
    /\ Len(image_files) >= 3
    /\ ~Decodable(image_files[1])
    /\ ~Decodable(image_files[2])
    /\ Decodable(image_files[3])
    /\ Len(images) = 1

(***************************************************************************)
(* C2.  Every frame in the frame buffer has the dimensions base_size, the  *)
(* first frame included, also when the first image exceeds 1920 pixels.    *)
(***************************************************************************)
C2_EveryFrameHasBaseSize ==
    LoopEntered => \A k \in 1..Len(images) : images[k].size = base_size

(***************************************************************************)
(* C3.  After every batch_size files iterated, failed ones counted, a      *)
(* checkpoint (reclamation pass and memory sample) runs; a sample above    *)
(* 80% ends the loop there, and the run then completes successfully.       *)
(***************************************************************************)
C3_CheckpointEveryBatch ==
    LoopEntered =>
        /\ \A n \in 1..i : AtCheckpoint(n) =>
               \E c \in 1..Len(checkpoints) : checkpoints[c][1] = n
        /\ \A c \in 1..Len(checkpoints) :
               checkpoints[c][2] > memory_threshold =>
                   /\ stopped
                   /\ i = checkpoints[c][1]
                   /\ pc # "loop"
                   /\ (Done /\ error # "EncodeError") => result = "True"

(***************************************************************************)
(* C4.  With no cap supplied, a computed cap of zero or less ends the run  *)
(* with InvalidMemoryBudget before the folder is listed or an image        *)
(* opened; the effective max frame count is never zero or negative.        *)
(***************************************************************************)
C4_NonPositiveBudgetRejected ==
    (max_frames_arg = None /\ max_frames # None /\ max_frames[1] <= 0)
        => /\ Done
           /\ error = "InvalidMemoryBudget"
           /\ ~listed
           /\ opened = 0

(***************************************************************************)
(* C5.  As written, for a cap k >= 1: with an explicit cap k and a folder  *)
(* of n supported, decodable images, the output holds the first k files of *)
(* the sorted list when n > k, and all n files when n <= k.                *)
(***************************************************************************)
C5_AsWritten ==
    (result = "True" /\ max_frames_arg # None /\ max_frames_arg[1] >= 1
            /\ AllDecodable)
        => FrameFiles(encoded) = Names(FirstOfSorted(max_frames_arg[1]))

(***************************************************************************)
(* C5, amended.  The same, provided no memory-pressure stop happened (one  *)
(* can only happen once batch_size files were iterated, so never for       *)
(* k < 100).                                                               *)
(***************************************************************************)
C5_ExplicitCapKeepsFirstK ==
    (result = "True" /\ max_frames_arg # None /\ max_frames_arg[1] >= 1
            /\ AllDecodable)
        => /\ ~stopped =>
                FrameFiles(encoded) = Names(FirstOfSorted(max_frames_arg[1]))
           /\ max_frames_arg[1] < batch_size => ~stopped

\* C5: three decodable files, cap 2, an output of two frames
C5_Witness ==
    /\ result = "True"
    /\ max_frames_arg = <<2>>
    /\ AllDecodable
    /\ Len(Supported) = 3
    /\ Len(encoded) = 2
    /\ ~stopped

(***************************************************************************)
(* C6.  The frames handed to the encoder are the successfully processed    *)
(* files in the Frame Orderer's order: with numeric sort, ascending in the *)
(* integer formed from the digits of the file name (no digits = 0), equal  *)
(* keys in listing order; without it, in case-sensitive lexicographic      *)
(* order.  The frame buffer is append-only during the run.                 *)
(***************************************************************************)
\* C6: the encoder receives the frame buffer, ordered, one frame per file
\* that was processed successfully and none for any other
C6_EncodedInOrder ==
    encoded # None =>
        /\ encoded = images
        /\ \A k \in 1..(Len(encoded) - 1) :
               InOrder(encoded[k].file, encoded[k + 1].file)
        /\ \A k \in 1..Len(encoded) : Decodable(FileNamed(encoded[k].file))
        /\ \A k \in 1..i : Decodable(image_files[k]) =>
               \E e \in 1..Len(encoded) : encoded[e].file = image_files[k].name

\* C6: a step taken inside the loop keeps every frame where it is
C6_AppendOnly ==
    (pc = "loop") =>
        /\ Len(images) <= Len(images')
        /\ SubSeq(images', 1, Len(images)) = images

C7_NoOutputWithoutFrames ==
    /\ (output # "absent" \/ encoded # None) => (images # <<>> /\ encoded = images)
    /\ (Done /\ folder_exists /\ Supported = <<>>) =>
            /\ error = "NoSupportedFiles"
            /\ result = "False"
            /\ opened = 0
            /\ encoded = None
            /\ output = "absent"
    /\ (Done /\ Supported # <<>> /\ DecodableFiles(Supported) = <<>>) =>
            /\ error = "NoFramesProcessed"
            /\ result = "False"
            /\ encoded = None
            /\ output = "absent"

\* C7: three listed files, all undecodable, and no output file
C7_Witness ==
    /\ Done
    /\ error = "NoFramesProcessed"
    /\ opened = 3
    /\ output = "absent"

(***************************************************************************)
(* C9.  A command line with -m/--max k starts a conversion limited to at   *)
(* most k frames.                                                          *)
(***************************************************************************)
C9_CliCapReachesPipeline ==
    (caller = "cli" /\ args_max # None /\ result = "True")
        => Len(encoded) <= args_max[1]

(***************************************************************************)
(* C10.  base_size is fixed only by a file that yields a frame: while no   *)
(* frame exists base_size is unset, and afterwards it is the (downscaled)  *)
(* size of the file behind the first frame.                                *)
(***************************************************************************)
C10_BaseSizeFromFirstFrame ==
    LoopEntered =>
        IF images = <<>>
        THEN base_size = None
        ELSE base_size = Downscale(FileNamed(images[1].file).size)

(***************************************************************************)
(* C8.  As written: two runs on the same unchanged folder with identical   *)
(* settings that both produce an output produce the same frames in the     *)
(* same order, whatever the memory readings of each run.                   *)
(***************************************************************************)
C8_AsWritten ==
    BothRunsSucceeded => FrameFiles(encoded) = FrameFiles(prev[1].encoded)

(***************************************************************************)
(* C8, amended.  The two outputs are equal whenever the two runs arrive at *)
(* the same frame cap and see utilisation above 80% at the same            *)
(* checkpoints; whatever the readings, the frames of one output are a      *)
(* prefix of the frames of the other.                                      *)
(***************************************************************************)
C8_SameReadingsSameOutput ==
    BothRunsSucceeded =>
        /\ \/ IsPrefix(encoded, prev[1].encoded)
           \/ IsPrefix(prev[1].encoded, encoded)
        /\ (max_frames = prev[1].max_frames
                /\ Above80(checkpoints) = Above80(prev[1].checkpoints))
              => encoded = prev[1].encoded

\* C8: two successful runs over a full batch whose samples differ, though
\* not in which of them exceed 80%
C8_Witness ==
    /\ BothRunsSucceeded
    /\ max_frames = prev[1].max_frames
    /\ checkpoints # prev[1].checkpoints
    /\ Above80(checkpoints) = Above80(prev[1].checkpoints)
    /\ Len(encoded) > batch_size

====
